---- MODULE Spec2Model ----
(***************************************************************************)
(* Model of PolygonDrawer (src/PolyDraw.py): the click handler on_click    *)
(* and the operations add_point, finish_polygon, clear_polygon and         *)
(* get_polygon_points, together with the part of the matplotlib axes they  *)
(* talk to: the set of artists currently on the axes, Artist.remove() and  *)
(* the toolbar mode.                                                       *)
(*                                                                         *)
(* A handler is a sequential piece of Python.  Each one is an operator     *)
(* from an object state `s` (a record of the fields of the drawer and of   *)
(* the axes) to the object state at the handler's exit.  A Python          *)
(* exception leaves the handler at the raising statement: the statements   *)
(* before it have taken effect, those after it have not (field `raised`).  *)
(*                                                                         *)
(* The axes are modelled by what the drawer can observe of them: ax.plot   *)
(* and ax.text create a new artist and put it on the axes; Artist.remove() *)
(* takes it off through list.remove, which raises ValueError for an artist *)
(* that is not on the axes any more.  Clicks carry defined coordinates     *)
(* (clicks inside the axes); the text of a coordinate label is not         *)
(* modelled, only the place it is drawn at.                                *)
(***************************************************************************)
EXTENDS Integers, Sequences, FiniteSets

VARIABLES
    all_polygons,    \* self.all_polygons: list of the arrays stored by finish_polygon
    polygon_points,  \* self.polygon_points: list of [x, y]
    drawn_elements,  \* self.drawn_elements: list of artist handles
    coord_text,      \* self.coord_text: the last text artist, or None
    show_text,       \* self.show_text: the poly_text constructor argument
    artists,         \* axes: the artists that are drawn and not removed
    next_id,         \* axes: number of artists created so far
    op,              \* the handler that ran last
    arg,             \* the event that handler was given (for on_click, with the
                     \* toolbar mode it found)
    calls,           \* the operations that handler invoked, in order
    log,             \* the commands that handler issued, in order
    raised,          \* whether that handler left by an exception
    ret,             \* the value that handler returned
    added,           \* history: coordinates given to add_point since the vertex list was last empty
    finishes         \* history: finish_polygon calls since the vertex list was last empty (saturating at 2)

vars == <<all_polygons, polygon_points, drawn_elements, coord_text, show_text,
          artists, next_id, op, arg, calls, log, raised, ret, added, finishes>>

----------------------------------------------------------------------------
(* Bounds *)

\* longest vertex list the model lets the handlers build
MaxPoints == 6
\* most entries of all_polygons the model lets finish_polygon store
MaxPolygons == 2
\* most artists the axes create in one run
MaxArtists == 7

\* the coordinates given to add_point (event.xdata, event.ydata)
Coords == {<<1, 1>>, <<2, 1>>, <<2, 2>>}
\* the coordinates of the clicks the canvas delivers
ClickCoords == {<<1, 1>>, <<2, 1>>}
\* event.button: left, middle, right
Buttons == {1, 2, 3}
\* toolbar.mode: no tool, zoom tool, pan tool
Modes == {"", "zoom rect", "pan/zoom"}

----------------------------------------------------------------------------
(* Python values *)

PyNone == [tag |-> "None"]

\* np.array(list of [x, y]): an n-by-2 array holding the rows of the list
NpArray(points) == [tag |-> "ndarray", shape |-> <<Len(points), 2>>, rows |-> points]

\* a button_press_event: event.dblclick, event.button and (event.xdata,
\* event.ydata), and the toolbar mode at the time of the event
MouseEvent(toolbar_mode, dblclick, button, c) ==
    [tag |-> "MouseEvent", mode |-> toolbar_mode, dblclick |-> dblclick,
     button |-> button, xy |-> c]

Artist(id, kind) == [tag |-> "Artist", id |-> id, kind |-> kind]

Range(seq) == {seq[i] : i \in 1..Len(seq)}

----------------------------------------------------------------------------
(* The axes *)

\* ax.plot / ax.text: a new artist is created and put on the axes
Draw(s, kind, cmd) ==
    [s EXCEPT !.artists = @ \cup {Artist(s.next_id + 1, kind)},
              !.next_id = @ + 1,
              !.log = Append(@, cmd)]

\* the handle returned by the Draw above
NewArtist(s, kind) == Artist(s.next_id + 1, kind)

\* artist.remove(): takes the artist off the axes; list.remove raises
\* ValueError when the artist is not on the axes any more
Remove(s, h) ==
    IF h \in s.artists
    THEN [s EXCEPT !.artists = @ \ {h}, !.log = Append(@, <<"remove", h>>)]
    ELSE [s EXCEPT !.raised = TRUE, !.log = Append(@, <<"remove", h>>)]

\* plt.draw()
Refresh(s) == [s EXCEPT !.log = Append(@, <<"refresh">>)]

\* print(msg)
Stdout(s, msg) == [s EXCEPT !.log = Append(@, <<"print", msg>>)]

----------------------------------------------------------------------------
(* The operations of PolygonDrawer *)

get_polygon_points(s) ==
    IF s.polygon_points # <<>> THEN NpArray(s.polygon_points) ELSE PyNone

add_point(s0, c) ==
    LET s1 == [s0 EXCEPT !.polygon_points = Append(@, c),
                         !.calls = Append(@, "add_point")]
        s2 == [Draw(s1, "marker", <<"draw_point", c>>)
                 EXCEPT !.drawn_elements = Append(@, NewArtist(s1, "marker"))]
        s3 == IF s2.coord_text # PyNone THEN Remove(s2, s2.coord_text) ELSE s2
        s4 == IF s3.show_text
              THEN [Draw(s3, "text", <<"draw_text", c>>)
                      EXCEPT !.coord_text = NewArtist(s3, "text"),
                             !.drawn_elements = Append(@, NewArtist(s3, "text"))]
              ELSE s3
    IN  IF s3.raised THEN s3 ELSE Refresh(s4)

\* finish_polygon without line 232: the ring is left open
finish_polygon_open(s0) ==
    LET s1 == [s0 EXCEPT !.calls = Append(@, "finish_polygon")]
        s3 == [Draw(s1, "line", <<"draw_line", s1.polygon_points>>)
                 EXCEPT !.drawn_elements = Append(@, NewArtist(s1, "line"))]
        s4 == Stdout(Refresh(s3), "Polygon finished.")
    IN  IF Len(s0.polygon_points) < 3
        THEN Stdout(s1, "Need at least 3 points to form a polygon.")
        ELSE [s4 EXCEPT !.all_polygons = Append(@, get_polygon_points(s4))]

\* finish_polygon with the test of line 228 off by one: two points are enough
finish_polygon_two(s0) ==
    LET s1 == [s0 EXCEPT !.calls = Append(@, "finish_polygon")]
        s2 == [s1 EXCEPT !.polygon_points = Append(@, @[1])]
        s3 == [Draw(s2, "line", <<"draw_line", s2.polygon_points>>)
                 EXCEPT !.drawn_elements = Append(@, NewArtist(s2, "line"))]
        s4 == Stdout(Refresh(s3), "Polygon finished.")
    IN  IF Len(s0.polygon_points) < 2
        THEN Stdout(s1, "Need at least 3 points to form a polygon.")
        ELSE [s4 EXCEPT !.all_polygons = Append(@, get_polygon_points(s4))]

\* finish_polygon that starts a new capture once the polygon is stored
finish_polygon_reset(s0) ==
    LET s1 == [s0 EXCEPT !.calls = Append(@, "finish_polygon")]
        s2 == [s1 EXCEPT !.polygon_points = Append(@, @[1])]
        s3 == [Draw(s2, "line", <<"draw_line", s2.polygon_points>>)
                 EXCEPT !.drawn_elements = Append(@, NewArtist(s2, "line"))]
        s4 == Stdout(Refresh(s3), "Polygon finished.")
    IN  IF Len(s0.polygon_points) < 3
        THEN Stdout(s1, "Need at least 3 points to form a polygon.")
        ELSE [s4 EXCEPT !.all_polygons = Append(@, get_polygon_points(s4)),
                        !.polygon_points = <<>>]

\* finish_polygon closing the ring with the last vertex instead of the first
finish_polygon_last(s0) ==
    LET s1 == [s0 EXCEPT !.calls = Append(@, "finish_polygon")]
        s2 == [s1 EXCEPT !.polygon_points = Append(@, @[Len(@)])]
        s3 == [Draw(s2, "line", <<"draw_line", s2.polygon_points>>)
                 EXCEPT !.drawn_elements = Append(@, NewArtist(s2, "line"))]
        s4 == Stdout(Refresh(s3), "Polygon finished.")
    IN  IF Len(s0.polygon_points) < 3
        THEN Stdout(s1, "Need at least 3 points to form a polygon.")
        ELSE [s4 EXCEPT !.all_polygons = Append(@, get_polygon_points(s4))]

\* finish_polygon storing the array before it closes the ring
finish_polygon_store_first(s0) ==
    LET s1 == [s0 EXCEPT !.calls = Append(@, "finish_polygon")]
        s2 == [s1 EXCEPT !.polygon_points = Append(@, @[1])]
        s3 == [Draw(s2, "line", <<"draw_line", s2.polygon_points>>)
                 EXCEPT !.drawn_elements = Append(@, NewArtist(s2, "line"))]
        s4 == Stdout(Refresh(s3), "Polygon finished.")
    IN  IF Len(s0.polygon_points) < 3
        THEN Stdout(s1, "Need at least 3 points to form a polygon.")
        ELSE [s4 EXCEPT !.all_polygons = Append(@, get_polygon_points(s1))]

\* finish_polygon drawing the line before it closes the ring
finish_polygon_draw_first(s0) ==
    LET s1 == [s0 EXCEPT !.calls = Append(@, "finish_polygon")]
        s2 == [Draw(s1, "line", <<"draw_line", s1.polygon_points>>)
                 EXCEPT !.drawn_elements = Append(@, NewArtist(s1, "line"))]
        s3 == [s2 EXCEPT !.polygon_points = Append(@, @[1])]
        s4 == Stdout(Refresh(s3), "Polygon finished.")
    IN  IF Len(s0.polygon_points) < 3
        THEN Stdout(s1, "Need at least 3 points to form a polygon.")
        ELSE [s4 EXCEPT !.all_polygons = Append(@, get_polygon_points(s4))]

\* finish_polygon without line 237: the handle of the line is not recorded
finish_polygon_unrecorded(s0) ==
    LET s1 == [s0 EXCEPT !.calls = Append(@, "finish_polygon")]
        s2 == [s1 EXCEPT !.polygon_points = Append(@, @[1])]
        s3 == Draw(s2, "line", <<"draw_line", s2.polygon_points>>)
        s4 == Stdout(Refresh(s3), "Polygon finished.")
    IN  IF Len(s0.polygon_points) < 3
        THEN Stdout(s1, "Need at least 3 points to form a polygon.")
        ELSE [s4 EXCEPT !.all_polygons = Append(@, get_polygon_points(s4))]

finish_polygon(s0) ==
    LET s1 == [s0 EXCEPT !.calls = Append(@, "finish_polygon")]
        s2 == [s1 EXCEPT !.polygon_points = Append(@, @[1])]
        s3 == [Draw(s2, "line", <<"draw_line", s2.polygon_points>>)
                 EXCEPT !.drawn_elements = Append(@, NewArtist(s2, "line"))]
        s4 == Stdout(Refresh(s3), "Polygon finished.")
    IN  IF Len(s0.polygon_points) < 3
        THEN Stdout(s1, "Need at least 3 points to form a polygon.")
        ELSE [s4 EXCEPT !.all_polygons = Append(@, get_polygon_points(s4))]

\* the loop `for elem in self.drawn_elements: elem.remove()` from element i on
RECURSIVE RemoveAll(_, _)
RemoveAll(s, i) ==
    IF i > Len(s.drawn_elements) \/ s.raised
    THEN s
    ELSE RemoveAll(Remove(s, s.drawn_elements[i]), i + 1)

\* clear_polygon that forgets the finished polygons too
clear_polygon_all(s0) ==
    LET s1 == RemoveAll([s0 EXCEPT !.calls = Append(@, "clear_polygon")], 1)
        s2 == [s1 EXCEPT !.drawn_elements = <<>>, !.polygon_points = <<>>,
                         !.all_polygons = <<>>]
    IN  IF s1.raised THEN s1 ELSE Stdout(Refresh(s2), "Polygon cleared.")

clear_polygon(s0) ==
    LET s1 == RemoveAll([s0 EXCEPT !.calls = Append(@, "clear_polygon")], 1)
        s2 == [s1 EXCEPT !.drawn_elements = <<>>, !.polygon_points = <<>>]
    IN  IF s1.raised THEN s1 ELSE Stdout(Refresh(s2), "Polygon cleared.")

\* on_click with the test of line 147 naming the zoom tool only
on_click_zoom_only(s, event) ==
    IF event.mode # "" /\ event.mode \in {"zoom rect"}
    THEN s
    ELSE IF event.dblclick
         THEN clear_polygon(s)
         ELSE IF event.button = 1
              THEN add_point(s, event.xy)
              ELSE IF event.button = 3
                   THEN finish_polygon(s)
                   ELSE s

\* on_click with the button dispatched before the double-click test
on_click_button_first(s, event) ==
    IF event.mode # "" /\ event.mode \in {"zoom rect", "pan/zoom"}
    THEN s
    ELSE LET s1 == IF event.button = 1
                   THEN add_point(s, event.xy)
                   ELSE IF event.button = 3
                        THEN finish_polygon(s)
                        ELSE s
         IN  IF event.dblclick /\ ~s1.raised THEN clear_polygon(s1) ELSE s1

\* on_click with the two buttons exchanged, as its docstring has them
on_click_swapped(s, event) ==
    IF event.mode # "" /\ event.mode \in {"zoom rect", "pan/zoom"}
    THEN s
    ELSE IF event.dblclick
         THEN clear_polygon(s)
         ELSE IF event.button = 3
              THEN add_point(s, event.xy)
              ELSE IF event.button = 1
                   THEN finish_polygon(s)
                   ELSE s

on_click(s, event) ==
    IF event.mode # "" /\ event.mode \in {"zoom rect", "pan/zoom"}
    THEN s
    ELSE IF event.dblclick
         THEN clear_polygon(s)
         ELSE IF event.button = 1
              THEN add_point(s, event.xy)
              ELSE IF event.button = 3
                   THEN finish_polygon(s)
                   ELSE s

----------------------------------------------------------------------------
(* The state machine *)

\* the object state at the entry of a handler
Entry ==
    [all_polygons |-> all_polygons, polygon_points |-> polygon_points,
     drawn_elements |-> drawn_elements, coord_text |-> coord_text,
     show_text |-> show_text, artists |-> artists, next_id |-> next_id,
     calls |-> <<>>, log |-> <<>>, raised |-> FALSE]

\* the history variables after a handler that was given a and went from Entry to s
History(a, s) ==
    LET base_added == IF polygon_points = <<>> THEN <<>> ELSE added
        base_fin   == IF polygon_points = <<>> THEN 0 ELSE finishes
    IN  /\ added' = IF "add_point" \in Range(s.calls)
                    THEN Append(base_added, a.xy)
                    ELSE IF s.polygon_points = <<>> THEN <<>> ELSE base_added
        /\ finishes' = IF "finish_polygon" \in Range(s.calls)
                       THEN (IF base_fin < 2 THEN base_fin + 1 ELSE 2)
                       ELSE IF s.polygon_points = <<>> THEN 0 ELSE base_fin

\* a handler named name was given a, ran from Entry to s and returned r
Exit(name, a, s, r) ==
    /\ all_polygons' = s.all_polygons
    /\ polygon_points' = s.polygon_points
    /\ drawn_elements' = s.drawn_elements
    /\ coord_text' = s.coord_text
    /\ show_text' = s.show_text
    /\ artists' = s.artists
    /\ next_id' = s.next_id
    /\ op' = name
    /\ arg' = a
    /\ calls' = s.calls
    /\ log' = s.log
    /\ raised' = s.raised
    /\ ret' = r
    /\ History(a, s)

\* the model stays within its bounds after a handler that ends in s
InBounds(s) ==
    /\ Len(s.polygon_points) <= MaxPoints
    /\ Len(s.all_polygons) <= MaxPolygons
    /\ s.next_id <= MaxArtists

Init ==
    /\ all_polygons = <<>>
    /\ polygon_points = <<>>
    /\ drawn_elements = <<>>
    /\ coord_text = PyNone
    /\ show_text \in BOOLEAN
    /\ artists = {}
    /\ next_id = 0
    /\ op = "__init__"
    /\ arg = PyNone
    /\ calls = <<>>
    /\ log = <<>>
    /\ raised = FALSE
    /\ ret = PyNone
    /\ added = <<>>
    /\ finishes = 0

\* the canvas delivers a button_press_event
OnClick ==
    \E m \in Modes, dblclick \in BOOLEAN, button \in Buttons, c \in ClickCoords :
        LET event == MouseEvent(m, dblclick, button, c)
            s == on_click(Entry, event)
        IN  /\ InBounds(s)
            /\ Exit("on_click", event, s, PyNone)

\* a caller invokes add_point directly
AddPoint ==
    \E c \in Coords :
        LET s == add_point(Entry, c)
        IN  /\ InBounds(s)
            /\ Exit("add_point", MouseEvent("", FALSE, 1, c), s, PyNone)

\* a caller invokes finish_polygon directly
FinishPolygon ==
    LET s == finish_polygon(Entry)
    IN  /\ InBounds(s)
        /\ Exit("finish_polygon", PyNone, s, PyNone)

\* a caller invokes clear_polygon directly
ClearPolygon ==
    LET s == clear_polygon(Entry)
    IN  /\ InBounds(s)
        /\ Exit("clear_polygon", PyNone, s, PyNone)

\* a caller invokes get_polygon_points
GetPolygonPoints ==
    Exit("get_polygon_points", PyNone,
         [Entry EXCEPT !.calls = <<"get_polygon_points">>],
         get_polygon_points(Entry))

\* a caller drives the drawer through its methods
Next ==
    \/ AddPoint
    \/ FinishPolygon
    \/ ClearPolygon
    \/ GetPolygonPoints

Spec == Init /\ [][Next]_vars

\* a user drives the drawer through the canvas, and a caller reads the result
NextClick ==
    \/ OnClick
    \/ GetPolygonPoints

SpecClick == Init /\ [][NextClick]_vars

----------------------------------------------------------------------------
(* Vocabulary of the properties *)

Distinct(seq) == Cardinality(Range(seq)) = Len(seq)

\* the vertex list points closed into a ring
Ring(points) == Append(points, points[1])

\* the positions of a handler's log that hold a command of one of the kinds
Commands(l, kinds) == {i \in 1..Len(l) : l[i][1] \in kinds}

DrawKinds == {"draw_point", "draw_text", "draw_line"}

\* the fields of the drawer and of the axes
object == <<all_polygons, polygon_points, drawn_elements, coord_text,
            show_text, artists, next_id>>

----------------------------------------------------------------------------
(* C1 *)

\* C1 as stated: from an empty vertex list, N >= 1 add_point calls with
\* distinct coordinates and then the first finish_polygon append to
\* all_polygons an array of N+1 rows: the N coordinates in click order and
\* then the first one again.
C1_AnyNFinishes ==
    [][("finish_polygon" \in Range(calls') /\ polygon_points # <<>>
            /\ finishes = 0 /\ Len(added) >= 1 /\ Distinct(added))
        => all_polygons' = Append(all_polygons, NpArray(Ring(added)))]_vars

\* C1 amended: the same for N >= 3.
C1_ThreeOrMoreFinishes ==
    [][("finish_polygon" \in Range(calls') /\ polygon_points # <<>>
            /\ finishes = 0 /\ Len(added) >= 3 /\ Distinct(added))
        => all_polygons' = Append(all_polygons, NpArray(Ring(added)))]_vars

C1_Witness ==
    /\ "finish_polygon" \in Range(calls)
    /\ finishes = 1
    /\ Len(added) = 3 /\ Distinct(added)
    /\ Len(all_polygons) = 1
    /\ all_polygons[1].shape = <<4, 2>>

----------------------------------------------------------------------------
(* C2 *)

\* C2: finish_polygon called with 0, 1 or 2 points in the vertex list
\* changes no field of the drawer or of the axes, issues no draw, remove or
\* refresh command and raises nothing, and an add_point called next still
\* appends its coordinate.
C2_FinishFewIsNoop ==
    [][("finish_polygon" \in Range(calls') /\ Len(polygon_points) < 3)
        => /\ UNCHANGED object
           /\ ~raised'
           /\ Commands(log', DrawKinds \cup {"remove", "refresh"}) = {}
           /\ \A c \in Coords :
                 (add_point(Entry, c).polygon_points)' = Append(polygon_points', c)]_vars

C2_Witness ==
    /\ calls = <<"finish_polygon">>
    /\ Len(polygon_points) = 2
    /\ Len(drawn_elements) >= 2
    /\ all_polygons = <<>>
    /\ log = <<<<"print", "Need at least 3 points to form a polygon.">>>>

----------------------------------------------------------------------------
(* C3 *)

\* C3: every clear_polygon completes and leaves the vertex list and the
\* drawn-element list empty; called with nothing drawn it issues no remove
\* command and changes no field.
C3_ClearAlwaysEmpties ==
    [][("clear_polygon" \in Range(calls'))
        => /\ ~raised'
           /\ polygon_points' = <<>>
           /\ drawn_elements' = <<>>
           /\ (drawn_elements = <<>>
                 => /\ Commands(log', {"remove"}) = {}
                    /\ UNCHANGED object)]_vars

----------------------------------------------------------------------------
(* C4 *)

\* C4: a click delivered while the toolbar is in zoom or pan mode, whatever
\* its button and double-click flag, changes no field of the drawer or of
\* the axes (vertex list, drawn elements, pending text, polygon collection)
\* and issues no command.
C4_ZoomPanDiscarded ==
    [][(op' = "on_click" /\ arg'.mode \in {"zoom rect", "pan/zoom"})
        => /\ UNCHANGED object
           /\ log' = <<>>
           /\ calls' = <<>>]_vars

C4_Witness ==
    /\ op = "on_click"
    /\ arg.mode = "pan/zoom"
    /\ arg.button = 1 /\ ~arg.dblclick
    /\ Len(polygon_points) = 2
    /\ log = <<>>

----------------------------------------------------------------------------
(* C5 *)

\* C5: in normal mode a click with the double-click flag invokes
\* clear_polygon and nothing else, whatever its button: the vertex list is
\* afterwards empty or as before (the coordinate of the click is not
\* appended), nothing is drawn and all_polygons is unchanged.
C5_DoubleClickOnlyClears ==
    [][(op' = "on_click" /\ arg'.mode = "" /\ arg'.dblclick)
        => /\ calls' = <<"clear_polygon">>
           /\ polygon_points' \in {<<>>, polygon_points}
           /\ all_polygons' = all_polygons
           /\ next_id' = next_id
           /\ Commands(log', DrawKinds) = {}]_vars

C5_Witness ==
    /\ op = "on_click"
    /\ arg.mode = "" /\ arg.dblclick /\ arg.button = 1
    /\ calls = <<"clear_polygon">>
    /\ polygon_points = <<>>
    /\ Commands(log, {"remove"}) # {}

----------------------------------------------------------------------------
(* C6 *)

Markers(elements) == {h \in Range(elements) : h.kind = "marker"}

\* C6: from an empty vertex list, after add_point(a), add_point(b),
\* add_point(c) the first finish_polygon appends the one entry [a, b, c, a]
\* to all_polygons, leaves the vertex list equal to that 4-element sequence,
\* and leaves in drawn_elements what was there (the three markers among it)
\* followed by the handle of the new line.
C6_FinishKeepsCapture ==
    [][("finish_polygon" \in Range(calls') /\ polygon_points # <<>>
            /\ finishes = 0 /\ Len(added) = 3)
        => /\ all_polygons' = Append(all_polygons, NpArray(Ring(added)))
           /\ polygon_points' = Ring(added)
           /\ Len(polygon_points') = 4
           /\ drawn_elements' = Append(drawn_elements, Artist(next_id + 1, "line"))
           /\ Cardinality(Markers(drawn_elements')) >= 3]_vars

C6_Witness ==
    /\ "finish_polygon" \in Range(calls)
    /\ added = <<<<1, 1>>, <<2, 1>>, <<2, 2>>>>
    /\ polygon_points = <<<<1, 1>>, <<2, 1>>, <<2, 2>>, <<1, 1>>>>
    /\ all_polygons = <<NpArray(polygon_points)>>
    /\ Len(drawn_elements) = 4
    /\ drawn_elements[4].kind = "line"

----------------------------------------------------------------------------
(* C7 *)

\* C7: after every successful finish_polygon the vertex list is empty, so
\* that the next polygon holds only the vertices clicked after that finish.
C7_FinishResets ==
    ("finish_polygon" \in Range(calls)
        /\ Commands(log, {"draw_line"}) # {})
    => polygon_points = <<>>

----------------------------------------------------------------------------
(* C8 *)

\* C8: every add_point completes without an exception, appends its
\* coordinate as the new last element of the vertex list, draws exactly one
\* point marker whose handle is recorded in drawn_elements, and ends with a
\* refresh.
C8_AddPointAlwaysSucceeds ==
    [][("add_point" \in Range(calls'))
        => /\ ~raised'
           /\ polygon_points' = Append(polygon_points, arg'.xy)
           /\ Cardinality(Commands(log', {"draw_point"})) = 1
           /\ Artist(next_id + 1, "marker") \in Range(drawn_elements')
           /\ log'[Len(log')] = <<"refresh">>]_vars

----------------------------------------------------------------------------
(* C9 *)

\* C9: get_polygon_points changes nothing and returns the array of the
\* vertex list when the list is non-empty and None exactly when it is
\* empty; right after any clear_polygon it returns None and right after any
\* add_point it returns an array.
C9_GetIsPureAccessor ==
    [][(op' = "get_polygon_points")
        => /\ UNCHANGED object
           /\ log' = <<>>
           /\ (polygon_points # <<>> => ret'.tag = "ndarray" /\ ret'.rows = polygon_points)
           /\ (polygon_points = <<>> <=> ret' = PyNone)
           /\ ("clear_polygon" \in Range(calls) => ret' = PyNone)
           /\ ("add_point" \in Range(calls) => ret' # PyNone)]_vars

----------------------------------------------------------------------------
(* C10 *)

\* C10: all_polygons only grows at its end: a successful finish_polygon
\* appends exactly one entry, the array of the closed vertex list, and
\* every other step (add_point, a finish_polygon with too few points,
\* clear_polygon, get_polygon_points, a discarded click) leaves every
\* entry as it was, in its place.
C10_CollectionAppendOnly ==
    [][IF "finish_polygon" \in Range(calls') /\ Len(polygon_points) >= 3
       THEN /\ Len(all_polygons') = Len(all_polygons) + 1
            /\ SubSeq(all_polygons', 1, Len(all_polygons)) = all_polygons
            /\ all_polygons'[Len(all_polygons')] = NpArray(Ring(polygon_points))
       ELSE all_polygons' = all_polygons]_vars

C10_Witness ==
    /\ "clear_polygon" \in Range(calls)
    /\ ~raised
    /\ polygon_points = <<>>
    /\ Len(all_polygons) = 2
    /\ all_polygons[1] # all_polygons[2]

----------------------------------------------------------------------------
(* C11 *)

\* the rows of a stored polygon before the closing one
Open(polygon) == SubSeq(polygon.rows, 1, Len(polygon.rows) - 1)

Closed(polygon) ==
    /\ polygon.tag = "ndarray"
    /\ Len(polygon.rows) >= 2
    /\ polygon.rows[1] = polygon.rows[Len(polygon.rows)]

\* C11 as stated: every entry of all_polygons is a closed ring (first row
\* equal to last row) that had at least 3 distinct vertices before closure.
C11_RingsOfThreeDistinct ==
    \A i \in 1..Len(all_polygons) :
        /\ Closed(all_polygons[i])
        /\ Cardinality(Range(Open(all_polygons[i]))) >= 3

\* C11 amended: every entry of all_polygons is a closed ring that had at
\* least 3 vertices, equal ones counted each time, before closure.
C11_RingsOfThree ==
    \A i \in 1..Len(all_polygons) :
        /\ Closed(all_polygons[i])
        /\ Len(Open(all_polygons[i])) >= 3
        /\ all_polygons[i].shape = <<Len(all_polygons[i].rows), 2>>

C11_Witness ==
    /\ Len(all_polygons) = 2
    /\ Cardinality(Range(Open(all_polygons[1]))) = 2
    /\ Closed(all_polygons[2])
    /\ Len(Open(all_polygons[2])) = 4

----------------------------------------------------------------------------
(* C12 *)

\* C12: every handle in drawn_elements is an artist that was drawn and is
\* not removed yet (it is on the axes), and after a clear_polygon
\* drawn_elements is empty.
C12_HandlesAreLive ==
    /\ Range(drawn_elements) \subseteq artists
    /\ ("clear_polygon" \in Range(calls) => drawn_elements = <<>>)

----------------------------------------------------------------------------
(* C13 *)

Texts(handles) == {h \in handles : h.kind = "text"}

\* C13: at most one text label is outstanding at any time: there is at most
\* one on the axes and at most one among the handles recorded in
\* drawn_elements (labels are replaced, they do not accumulate), an
\* add_point with annotation enabled removes the previous label and draws
\* the new one, and with annotation disabled no label is ever drawn.
C13_OneLabelAtMost ==
    /\ Cardinality(Texts(artists)) <= 1
    /\ Cardinality(Texts(Range(drawn_elements))) <= 1
    /\ ("add_point" \in Range(calls) /\ show_text
          => ~raised /\ Texts(artists) = {coord_text})
    /\ (~show_text => Texts(artists) = {} /\ coord_text = PyNone)

----------------------------------------------------------------------------
(* C14 *)

----------------------------------------------------------------------------
(* C15 *)

\* the polygons finished since the vertex list was last empty: each one
\* added one closing vertex to the vertex list
FinishedSinceEmpty == Len(polygon_points) - Len(added)

\* C15: when one polygon of N >= 3 vertices has been finished since the
\* vertex list was last empty, M >= 0 further add_point calls and then
\* finish_polygon store a second polygon of N+1+M+1 rows: the whole closed
\* ring of the first, then the M new vertices, then the first vertex of the
\* first polygon.
C15_SecondPolygonSpansBoth ==
    [][("finish_polygon" \in Range(calls') /\ polygon_points # <<>>
            /\ FinishedSinceEmpty = 1)
        => LET first == all_polygons[Len(all_polygons)]
               N     == Len(first.rows) - 1
               M     == Len(added) - N
               fresh == SubSeq(added, N + 1, N + M)
           IN  /\ N >= 3 /\ M >= 0
               /\ Len(all_polygons') = Len(all_polygons) + 1
               /\ all_polygons'[Len(all_polygons')] =
                     NpArray(first.rows \o fresh \o <<first.rows[1]>>)
               /\ all_polygons'[Len(all_polygons')].shape = <<N + 1 + M + 1, 2>>]_vars

C15_Witness ==
    /\ "finish_polygon" \in Range(calls)
    /\ Len(all_polygons) = 2
    /\ Len(all_polygons[1].rows) = 4
    /\ Len(all_polygons[2].rows) = 6
    /\ Len(added) = 4
    /\ added[4] \notin Range(all_polygons[1].rows)

----------------------------------------------------------------------------
(* C16 *)

\* C16: a successful finish_polygon issues exactly one draw-line command and
\* no other draw or remove command; the coordinates of the line are the
\* closed vertex list in insertion order, the same rows as the entry it
\* appends to all_polygons; exactly one handle, that of the line, is added
\* to drawn_elements; and a refresh follows the line.
C16_FinishDrawsTheRing ==
    [][("finish_polygon" \in Range(calls') /\ Len(polygon_points) >= 3)
        => /\ Cardinality(Commands(log', {"draw_line"})) = 1
           /\ Commands(log', {"draw_point", "draw_text", "remove"}) = {}
           /\ \A i \in Commands(log', {"draw_line"}) :
                 /\ log'[i][2] = Ring(polygon_points)
                 /\ log'[i][2] = all_polygons'[Len(all_polygons')].rows
                 /\ \E j \in Commands(log', {"refresh"}) : j > i
           /\ drawn_elements' = Append(drawn_elements, Artist(next_id + 1, "line"))
           /\ Artist(next_id + 1, "line") \in artists'
           /\ Artist(next_id + 1, "line") \notin artists]_vars

C16_Witness ==
    /\ "finish_polygon" \in Range(calls)
    /\ show_text
    /\ Len(drawn_elements) = 7
    /\ drawn_elements[7].kind = "line"
    /\ log[1] = <<"draw_line", polygon_points>>
    /\ Distinct(added)

----------------------------------------------------------------------------
(* C17 *)

\* C17: no handle is removed twice: every remove command of a handler (by
\* add_point for the previous label, by clear_polygon for the recorded
\* elements) targets an artist that is on the axes at that moment, that is,
\* one that was on the axes when the handler started and that the handler
\* has not removed before.
C17_NoDoubleRemove ==
    [][\A i \in Commands(log', {"remove"}) :
          /\ log'[i][2] \in artists
          /\ \A j \in Commands(log', {"remove"}) :
                j < i => log'[j][2] # log'[i][2]]_vars

----------------------------------------------------------------------------
(* C18 *)

\* C18: every artist the drawer has drawn and that is still on the axes is
\* recorded in drawn_elements, and right after any clear_polygon no artist
\* it drew is left on the axes.
C18_NoLeak ==
    /\ artists \subseteq Range(drawn_elements)
    /\ ("clear_polygon" \in Range(calls) => artists = {})

----------------------------------------------------------------------------
(* C19 *)

====
